---- MODULE Spec2Model ----
(***************************************************************************)
(* Model of the kameo ping-pong demo: one PingActor per server process     *)
(* (ping-http-server behind WebSocket, ping-cli-server behind libp2p),     *)
(* the WebSocket bridge handle_socket, and the native client's ask loop.   *)
(***************************************************************************)
EXTENDS Integers, Sequences, FiniteSets, TLC

\* ------------------------------------------------------------------ bounds

\* Frames the browser clients send plus asks the native clients issue.
MaxRequests == 3
\* Lookups of one native client that return None.
MaxRetries == 2
\* Asks of one native client that return Err.
MaxFaults == 2

\* ------------------------------------------------------- program constants

\* for i in 1..=10 of the native client.
NumPings == 10

\* ------------------------------------------------------------- processes

\* The two server binaries; each main spawns its own PingActor.
Servers == {"http", "cli"}
\* WebSocket connections accepted by the HTTP server (one handle_socket each).
Conns == {"ws1", "ws2"}
\* Native client processes dialing the CLI server.
CliClients == {"cli1", "cli2"}
Callers == Conns \cup CliClients

\* Every caller reaching the HTTP server's actor.
ServerOf_Shared(c) == "http"

\* The server process a caller's requests reach: a WebSocket connection
\* holds the HTTP server's ActorRef, a native client the handle it looked up
\* on the CLI server it dialed.
ServerOf(c) == IF c \in Conns THEN "http" ELSE "cli"

\* ------------------------------------------------------------ u64 / JSON

\* A u64 (Ping.sequence, ping_count, total_pings) is its decimal digit
\* string, most significant digit first, no leading zero.
U64MaxDigits == <<1,8,4,4,6,7,4,4,0,7,3,7,0,9,5,5,1,6,1,5>>
\* 2^64-2.
U64MaxLessOne == <<1,8,4,4,6,7,4,4,0,7,3,7,0,9,5,5,1,6,1,4>>
\* 2^64, one past the largest u64.
TooBigDigits == <<1,8,4,4,6,7,4,4,0,7,3,7,0,9,5,5,1,6,1,6>>

RECURSIVE LexLeq(_, _)
LexLeq(a, b) ==
    IF a = <<>> THEN TRUE
    ELSE IF Head(a) # Head(b) THEN Head(a) < Head(b)
    ELSE LexLeq(Tail(a), Tail(b))

\* a <= b for digit strings without leading zeros.
DigitsLeq(a, b) ==
    \/ Len(a) < Len(b)
    \/ Len(a) = Len(b) /\ LexLeq(a, b)

RECURSIVE ToDigits(_)
\* Decimal rendering of an integer n >= 0 (serde_json's u64 output).
ToDigits(n) == IF n < 10 THEN <<n>> ELSE Append(ToDigits(n \div 10), n % 10)

RECURSIVE IncDigits(_)
\* The digit string of the next integer.
IncDigits(d) ==
    IF d = <<>> THEN <<1>>
    ELSE IF d[Len(d)] < 9 THEN [d EXCEPT ![Len(d)] = @ + 1]
    ELSE Append(IncDigits(SubSeq(d, 1, Len(d) - 1)), 0)

\* u64 += 1 as a build without overflow checks computes it: 2^64-1 wraps
\* to 0.
AddOne(d) == IF d = U64MaxDigits THEN <<0>> ELSE IncDigits(d)

\* u64 += 1 overflows: a build with overflow checks panics here.
Overflows(d) == d = U64MaxDigits

\* JSON values: a string, or a number literal (sign, integer digits, and
\* whether it carries a fraction or exponent).
JStr(s) == [t |-> "string", s |-> s, neg |-> FALSE, digits |-> <<>>, frac |-> FALSE]
JNum(neg, digits, frac) == [t |-> "number", s |-> "", neg |-> neg, digits |-> digits, frac |-> frac]

\* The text of a frame: a JSON object (its members), a JSON array (its
\* elements), or text that is no JSON.
NoMembers == [k \in {} |-> JStr("")]
JsonObj(members) == [form |-> "object", obj |-> members, arr |-> <<>>]
JsonArr(elements) == [form |-> "array", obj |-> NoMembers, arr |-> elements]
NotJson == [form |-> "garbage", obj |-> NoMembers, arr |-> <<>>]

\* struct Ping { message: String, sequence: u64 }
Ping(message, sequence) == [message |-> message, sequence |-> sequence]
\* struct Pong { message: String, sequence: u64, total_pings: u64 }
Pong(message, sequence, total_pings) ==
    [message |-> message, sequence |-> sequence, total_pings |-> total_pings]

\* The value a failed parse leaves unused.
NoPing == Ping("", <<0>>)

\* A JSON value that deserializes as u64: a non-negative integer literal
\* no larger than 2^64-1.
IsU64(v) ==
    /\ v.t = "number"
    /\ ~v.neg
    /\ ~v.frac
    /\ DigitsLeq(v.digits, U64MaxDigits)

\* serde_json::from_str::<Ping>(&text) with the derived Deserialize: Ok(ping)
\* when the text is a JSON object with a string member "message" and a u64
\* member "sequence" (members it does not know are ignored), or a JSON array
\* of exactly a string and a u64. Anything else is Err.
ParsePing(text) ==
    IF /\ text.form = "object"
       /\ {"message", "sequence"} \subseteq DOMAIN text.obj
       /\ text.obj.message.t = "string"
       /\ IsU64(text.obj.sequence)
    THEN [ok |-> TRUE, ping |-> Ping(text.obj.message.s, text.obj.sequence.digits)]
    ELSE IF /\ text.form = "array"
            /\ Len(text.arr) = 2
            /\ text.arr[1].t = "string"
            /\ IsU64(text.arr[2])
    THEN [ok |-> TRUE, ping |-> Ping(text.arr[1].s, text.arr[2].digits)]
    ELSE [ok |-> FALSE, ping |-> NoPing]

\* A Pong whose counter goes on the wire as "total".
PongToJson_Total(pong) ==
    JsonObj([message |-> JStr(pong.message),
             sequence |-> JNum(FALSE, pong.sequence, FALSE),
             total |-> JNum(FALSE, pong.total_pings, FALSE)])

\* serde_json::to_string(&pong)
PongToJson(pong) ==
    JsonObj([message |-> JStr(pong.message),
             sequence |-> JNum(FALSE, pong.sequence, FALSE),
             total_pings |-> JNum(FALSE, pong.total_pings, FALSE)])

\* serde_json::to_string(&ping), as the browser and the Wasm client send it.
PingToJson(ping) ==
    JsonObj([message |-> JStr(ping.message),
             sequence |-> JNum(FALSE, ping.sequence, FALSE)])

\* --------------------------------------------------------------- frames

TextFrame(text) == [kind |-> "text", text |-> text]
BinaryFrame == [kind |-> "binary", text |-> NotJson]
PingFrame == [kind |-> "ping", text |-> NotJson]
PongFrame == [kind |-> "pong", text |-> NotJson]
CloseFrame == [kind |-> "close", text |-> NotJson]
\* socket.recv() yielding Err(e).
ErrorFrame == [kind |-> "error", text |-> NotJson]

\* Well-formed requests the browser clients send.
GoodTexts ==
    { PingToJson(Ping("hi", <<0>>)),
      PingToJson(Ping("yo", U64MaxDigits)) }
\* Text frames that are no Request: no JSON at all, a sequence of 2^64, a
\* negative sequence, a fractional sequence, a missing member, an array
\* that is too short, a message that is no string.
BadTexts ==
    { NotJson,
      PingToJson(Ping("hi", TooBigDigits)),
      JsonObj([message |-> JStr("hi"), sequence |-> JNum(TRUE, <<1>>, FALSE)]),
      JsonObj([message |-> JStr("hi"), sequence |-> JNum(FALSE, <<1>>, TRUE)]),
      JsonObj([message |-> JStr("hi")]),
      JsonArr(<<JStr("hi")>>),
      JsonObj([message |-> JNum(FALSE, <<1>>, FALSE), sequence |-> JNum(FALSE, <<1>>, FALSE)]) }
\* The malformed text frames the browser clients send.
SentBadTexts == { NotJson, PingToJson(Ping("hi", TooBigDigits)) }
\* Frames of the match's _ arm.
OtherFrames == {BinaryFrame, PingFrame, PongFrame}

ClientFrames ==
    {TextFrame(t) : t \in GoodTexts \cup SentBadTexts}
        \cup {BinaryFrame, CloseFrame, ErrorFrame}

\* ---------------------------------------------------------------- state

VARIABLES
    ping_count,   \* PingActor.ping_count of each server process
    spawned,      \* whether the server's PingActor has been spawned
    mailbox,      \* each actor's mailbox: envelopes [from, msg, id], FIFO
    slot,         \* each caller's pending ask: "none", "waiting" or the reply,
                  \* and the number of the ask it belongs to
    wsPc,         \* handle_socket of each connection: idle, recv, ask, done
    inbox,        \* frames sent by the client, not yet read by handle_socket
    out,          \* text frames handle_socket has sent on each connection
    lastRead,     \* the frame handle_socket read last on each connection
    warns,        \* "Parse error" lines handle_socket has logged per connection
    asked,        \* pings each caller has submitted with ask, in order
    enq,          \* envelopes in the order each mailbox accepted them
    replies,      \* [from, req, pong] in the order each actor handled them
    nframes,      \* frames the browser clients have sent so far
    cliPc,        \* native client main: lookup, ask, wait, done
    cliI,         \* the native client's loop variable i
    cliLog,       \* replies the native client has received ("Received PONG")
    cliErr,       \* turns i whose ask returned Err ("Error: ..."), in order
    target,       \* what the native client's --server address leads to
    retries,      \* "Actor not found, retrying..." lines per native client
    srvState,     \* each server process: "up", "panicked" (the actor died in
                  \* handle) or "down" (the process has exited)
    registered,   \* "ping_actor" on the CLI server: "none", "local" (register
                  \* returned Ok), "visible" (clients can look it up), "failed"
    abandoned,    \* numbers of the asks each caller gave up on or whose reply
                  \* it could not pass on
    askErrs       \* "Actor error" lines handle_socket has logged per connection

vars == <<ping_count, spawned, mailbox, slot, wsPc, inbox, out, lastRead,
          warns, asked, enq, replies, nframes, cliPc, cliI, cliLog, cliErr,
          target, retries, srvState, registered, abandoned, askErrs>>

wsVars == <<wsPc, inbox, out, lastRead, warns, nframes, askErrs>>
cliVars == <<cliPc, cliI, cliLog, cliErr, target, retries>>
srvVars == <<spawned, srvState, registered>>

NoFrame == [kind |-> "none", text |-> NotJson]

\* Everything but the counters and the native clients' position in main.
InitRest ==
    /\ spawned = [s \in Servers |-> s = "http"]
    /\ mailbox = [s \in Servers |-> <<>>]
    /\ slot = [c \in Callers |-> [state |-> "none", pong |-> Pong("", <<0>>, <<0>>), id |-> 0]]
    /\ wsPc = [c \in Conns |-> "idle"]
    /\ inbox = [c \in Conns |-> <<>>]
    /\ out = [c \in Conns |-> <<>>]
    /\ lastRead = [c \in Conns |-> NoFrame]
    /\ warns = [c \in Conns |-> 0]
    /\ asked = [c \in Callers |-> <<>>]
    /\ enq = [s \in Servers |-> <<>>]
    /\ replies = [s \in Servers |-> <<>>]
    /\ nframes = 0
    /\ cliI = [c \in CliClients |-> 1]
    /\ cliLog = [c \in CliClients |-> <<>>]
    /\ cliErr = [c \in CliClients |-> <<>>]
    /\ retries = [c \in CliClients |-> 0]
    /\ srvState = [s \in Servers |-> "up"]
    /\ registered = "none"
    /\ abandoned = [c \in Callers |-> {}]
    /\ askErrs = [c \in Conns |-> 0]

\* The HTTP server is up with its actor spawned; the native clients have
\* dialed the CLI server and are about to look the actor up.
Init ==
    /\ InitRest
    /\ ping_count = [s \in Servers |-> <<0>>]
    /\ cliPc = [c \in CliClients |-> "lookup"]
    /\ target = [c \in CliClients |-> "server"]

\* The HTTP server after 2^64-2 or 2^64-1 handled requests, none pending,
\* with connections still to be opened.
InitOverflow ==
    /\ InitRest
    /\ ping_count \in {[s \in Servers |-> IF s = "http" THEN d ELSE <<0>>] :
                          d \in {U64MaxLessOne, U64MaxDigits}}
    /\ cliPc = [c \in CliClients |-> "lookup"]
    /\ target = [c \in CliClients |-> "server"]

\* The native clients are at the start of main.
InitCli ==
    /\ InitRest
    /\ ping_count = [s \in Servers |-> <<0>>]
    /\ cliPc = [c \in CliClients |-> "start"]
    /\ target = [c \in CliClients |-> "unset"]

\* ---------------------------------------------------------- the handler

\* handle with the counter advanced by two.
handle_DoubleIncrement(count, msg) ==
    [ping_count |-> AddOne(AddOne(count)),
     reply |-> Pong("Pong! Responding to: " \o msg.message, msg.sequence,
                    AddOne(AddOne(count)))]

\* handle without the increment.
handle_NoIncrement(count, msg) ==
    [ping_count |-> count,
     reply |-> Pong("Pong! Responding to: " \o msg.message, msg.sequence, count)]

\* handle reading total_pings before the increment.
handle_TotalBeforeIncrement(count, msg) ==
    [ping_count |-> AddOne(count),
     reply |-> Pong("Pong! Responding to: " \o msg.message, msg.sequence, count)]

\* handle filling sequence from the counter instead of the request.
handle_SequenceFromCount(count, msg) ==
    [ping_count |-> AddOne(count),
     reply |-> Pong("Pong! Responding to: " \o msg.message, AddOne(count), AddOne(count))]

\* Message<Ping> for PingActor::handle when it returns: the counter after
\* the message and the reply.
handle(count, msg) ==
    LET incremented == AddOne(count)
    IN  [ping_count |-> incremented,
         reply |-> Pong("Pong! Responding to: " \o msg.message,
                        msg.sequence,
                        incremented)]

\* A mailbox handing out its newest envelope first.
Dequeue_Lifo(q) == [env |-> q[Len(q)], rest |-> SubSeq(q, 1, Len(q) - 1)]

\* The mailbox hands the actor its oldest envelope.
Dequeue(q) == [env |-> Head(q), rest |-> Tail(q)]

\* ask: the envelope joins the actor's mailbox and the caller waits on the
\* reply slot of this ask (asks of one caller are numbered 1, 2, ...).
Submit(c, ping) ==
    LET env == [from |-> c, msg |-> ping, id |-> Len(asked[c]) + 1]
    IN  /\ mailbox' = [mailbox EXCEPT ![ServerOf(c)] = Append(@, env)]
        /\ enq' = [enq EXCEPT ![ServerOf(c)] = Append(@, env)]
        /\ asked' = [asked EXCEPT ![c] = Append(@, ping)]
        /\ slot' = [slot EXCEPT ![c].state = "waiting", ![c].id = env.id]

\* A reply handed to the caller's slot whether or not the caller still
\* waits for that ask.
Deliver_Always(sl, env, pong) == [state |-> "ready", pong |-> pong, id |-> env.id]

\* The reply of an ask reaches the caller's slot if the caller still waits
\* for that ask; the reply of an ask the caller gave up on is dropped.
Deliver(sl, env, pong) ==
    IF sl.state = "waiting" /\ sl.id = env.id
    THEN [state |-> "ready", pong |-> pong, id |-> env.id]
    ELSE sl

\* The actor's message loop: one envelope at a time, handle runs to its end
\* (it holds &mut self and never awaits), and the reply goes to the asker.
ActorHandle(s) ==
    /\ spawned[s]
    /\ srvState[s] = "up"
    /\ mailbox[s] # <<>>
    /\ LET d == Dequeue(mailbox[s])
           r == handle(ping_count[s], d.env.msg)
       IN  /\ ping_count' = [ping_count EXCEPT ![s] = r.ping_count]
           /\ mailbox' = [mailbox EXCEPT ![s] = d.rest]
           /\ slot' = [slot EXCEPT ![d.env.from] = Deliver(@, d.env, r.reply)]
           /\ replies' = [replies EXCEPT ![s] =
                            Append(@, [from |-> d.env.from, req |-> d.env.msg,
                                       id |-> d.env.id, pong |-> r.reply])]
    /\ UNCHANGED <<asked, enq, abandoned, wsVars, cliVars, srvVars>>

\* self.ping_count += 1 overflows in a build with overflow checks (the dev
\* profile): handle panics before it builds the reply, the actor stops, and
\* the asks waiting on it (the one being handled and those queued) return
\* Err.
ActorPanic(s) ==
    /\ spawned[s]
    /\ srvState[s] = "up"
    /\ mailbox[s] # <<>>
    /\ Overflows(ping_count[s])
    /\ srvState' = [srvState EXCEPT ![s] = "panicked"]
    /\ mailbox' = [mailbox EXCEPT ![s] = <<>>]
    /\ slot' = [c \in Callers |->
                  IF ServerOf(c) = s /\ slot[c].state = "waiting"
                  THEN [slot[c] EXCEPT !.state = "error"]
                  ELSE slot[c]]
    /\ UNCHANGED <<ping_count, spawned, registered, asked, enq, replies,
                   abandoned, wsVars, cliVars>>

\* ------------------------------------------------- the WebSocket bridge

\* websocket_handler: the upgrade starts handle_socket for the connection.
websocket_handler(c) ==
    /\ wsPc[c] = "idle"
    /\ srvState[ServerOf(c)] # "down"
    /\ wsPc' = [wsPc EXCEPT ![c] = "recv"]
    /\ UNCHANGED <<ping_count, mailbox, slot, inbox, out, lastRead, warns,
                   asked, enq, replies, nframes, askErrs, abandoned, cliVars,
                   srvVars>>

\* The browser (ws.send) puts a frame on an open connection.
ClientSend(c, f) ==
    /\ wsPc[c] # "idle"
    /\ inbox' = [inbox EXCEPT ![c] = Append(@, f)]
    /\ nframes' = nframes + 1
    /\ UNCHANGED <<ping_count, mailbox, slot, wsPc, out, lastRead, warns,
                   asked, enq, replies, askErrs, abandoned, cliVars, srvVars>>

\* handle_socket leaving its loop on a parse error.
RecvOutcome_BreakOnParseError(f) ==
    CASE f.kind = "text" -> IF ParsePing(f.text).ok THEN "ask" ELSE "break"
      [] f.kind = "close" -> "break"
      [] f.kind = "error" -> "break"
      [] OTHER -> "ignore"

\* handle_socket treating every frame that is no text frame as the end.
RecvOutcome_BreakOnOther(f) ==
    CASE f.kind = "text" -> IF ParsePing(f.text).ok THEN "ask" ELSE "warn"
      [] OTHER -> "break"

\* handle_socket without the Close arm.
RecvOutcome_CloseIgnored(f) ==
    CASE f.kind = "text" -> IF ParsePing(f.text).ok THEN "ask" ELSE "warn"
      [] f.kind = "error" -> "break"
      [] OTHER -> "ignore"

\* The arm of handle_socket's match a received frame takes: "ask" (a text
\* frame that parses), "warn" (a text frame that does not), "break" (close
\* frame or receive error), "ignore" (the _ arm).
RecvOutcome(f) ==
    CASE f.kind = "text" -> IF ParsePing(f.text).ok THEN "ask" ELSE "warn"
      [] f.kind = "close" -> "break"
      [] f.kind = "error" -> "break"
      [] OTHER -> "ignore"

\* handle_socket, one turn of while let Some(msg) = socket.recv().await up
\* to the next await.
WsRecv(c) ==
    /\ wsPc[c] = "recv"
    /\ inbox[c] # <<>>
    /\ LET f == Head(inbox[c])
           o == RecvOutcome(f)
       IN  /\ inbox' = [inbox EXCEPT ![c] = Tail(@)]
           /\ lastRead' = [lastRead EXCEPT ![c] = f]
           /\ warns' = [warns EXCEPT ![c] = IF o = "warn" THEN @ + 1 ELSE @]
           /\ IF o = "ask" /\ srvState[ServerOf(c)] = "up"
              THEN /\ Submit(c, ParsePing(f.text).ping)
                   /\ wsPc' = [wsPc EXCEPT ![c] = "ask"]
                   /\ UNCHANGED askErrs
              ELSE IF o = "ask"
              THEN \* the actor is gone: ask returns Err at once, "Actor error"
                   /\ asked' = [asked EXCEPT ![c] = Append(@, ParsePing(f.text).ping)]
                   /\ askErrs' = [askErrs EXCEPT ![c] = @ + 1]
                   /\ UNCHANGED <<mailbox, enq, slot, wsPc>>
              ELSE /\ wsPc' = [wsPc EXCEPT ![c] = IF o = "break" THEN "done" ELSE "recv"]
                   /\ UNCHANGED <<mailbox, enq, asked, slot, askErrs>>
    /\ UNCHANGED <<ping_count, out, replies, nframes, abandoned, cliVars,
                   srvVars>>

\* Replies written to the other connection.
ReplyConn_Other(c) == IF c = "ws1" THEN "ws2" ELSE "ws1"

\* The connection a reply frame is written to: handle_socket's own socket.
ReplyConn(c) == c

\* handle_socket: ask returned Ok(pong_reply) and socket.send succeeded.
WsSendOk(c) ==
    /\ wsPc[c] = "ask"
    /\ slot[c].state = "ready"
    /\ out' = [out EXCEPT ![ReplyConn(c)] = Append(@, PongToJson(slot[c].pong))]
    /\ slot' = [slot EXCEPT ![c].state = "none"]
    /\ wsPc' = [wsPc EXCEPT ![c] = "recv"]
    /\ UNCHANGED <<ping_count, mailbox, inbox, lastRead, warns, asked, enq,
                   replies, nframes, askErrs, abandoned, cliVars, srvVars>>

\* handle_socket: ask returned Ok(pong_reply) and socket.send failed: break.
WsSendFail(c) ==
    /\ wsPc[c] = "ask"
    /\ slot[c].state = "ready"
    /\ slot' = [slot EXCEPT ![c].state = "none"]
    /\ wsPc' = [wsPc EXCEPT ![c] = "done"]
    /\ abandoned' = [abandoned EXCEPT ![c] = @ \cup {slot[c].id}]
    /\ UNCHANGED <<ping_count, mailbox, inbox, out, lastRead, warns, asked,
                   enq, replies, nframes, askErrs, cliVars, srvVars>>

\* handle_socket closing the connection when ask returns Err.
WsAskErr_Break(c) ==
    /\ wsPc[c] = "ask"
    /\ slot[c].state = "error"
    /\ slot' = [slot EXCEPT ![c].state = "none"]
    /\ askErrs' = [askErrs EXCEPT ![c] = @ + 1]
    /\ wsPc' = [wsPc EXCEPT ![c] = "done"]
    /\ UNCHANGED <<ping_count, mailbox, inbox, out, lastRead, warns, asked,
                   enq, replies, nframes, abandoned, cliVars, srvVars>>

\* handle_socket: ask returned Err(e): "Actor error" is logged, nothing is
\* sent, the loop goes on to the next frame.
WsAskErr(c) ==
    /\ wsPc[c] = "ask"
    /\ slot[c].state = "error"
    /\ slot' = [slot EXCEPT ![c].state = "none"]
    /\ askErrs' = [askErrs EXCEPT ![c] = @ + 1]
    /\ wsPc' = [wsPc EXCEPT ![c] = "recv"]
    /\ UNCHANGED <<ping_count, mailbox, inbox, out, lastRead, warns, asked,
                   enq, replies, nframes, abandoned, cliVars, srvVars>>

\* ------------------------------------------- the CLI server and client

\* ping-cli-server: the spawned task creates the PingActor and
\* register("ping_actor") returns Ok.
CliServerSpawn ==
    /\ ~spawned["cli"]
    /\ srvState["cli"] = "up"
    /\ spawned' = [spawned EXCEPT !["cli"] = TRUE]
    /\ registered' = "local"
    /\ ping_count' = [ping_count EXCEPT !["cli"] = <<0>>]
    /\ UNCHANGED <<mailbox, slot, asked, enq, replies, abandoned, srvState,
                   wsVars, cliVars>>

\* ping-cli-server: register("ping_actor") returns Err: the task logs
\* "Failed to register PingActor" and ends; main's event loop goes on.
CliServerRegisterFail ==
    /\ ~spawned["cli"]
    /\ srvState["cli"] = "up"
    /\ spawned' = [spawned EXCEPT !["cli"] = TRUE]
    /\ registered' = "failed"
    /\ ping_count' = [ping_count EXCEPT !["cli"] = <<0>>]
    /\ UNCHANGED <<mailbox, slot, asked, enq, replies, abandoned, srvState,
                   wsVars, cliVars>>

\* ping-cli-server's event loop drives the swarm: the registration becomes
\* visible to the peers that look the name up.
Propagate ==
    /\ registered = "local"
    /\ srvState["cli"] = "up"
    /\ registered' = "visible"
    /\ UNCHANGED <<ping_count, spawned, srvState, mailbox, slot, asked, enq,
                   replies, abandoned, wsVars, cliVars>>

\* What --server can be: the listening server's multiaddress, a well-formed
\* multiaddress nobody listens on, text that is no multiaddress, or absent.
Addrs == {"server", "dead", "bad", "none"}

\* ping-cli-client main up to the lookup loop: without --server it logs the
\* usage line and returns Ok(()); server_addr.parse()? ends main with the
\* error; otherwise it dials, sleeps 15 s and starts to look the actor up.
CliStart(c, a) ==
    /\ cliPc[c] = "start"
    /\ cliPc' = [cliPc EXCEPT ![c] =
                    CASE a = "none" -> "usage"
                      [] a = "bad" -> "failed"
                      [] OTHER -> "lookup"]
    /\ target' = [target EXCEPT ![c] = IF a \in {"server", "dead"} THEN a ELSE @]
    /\ UNCHANGED <<ping_count, mailbox, slot, asked, enq, replies, abandoned,
                   wsVars, cliI, cliLog, cliErr, retries, srvVars>>

\* A registry in which no lookup ever finds the name.
Resolvable_Never(c) == FALSE

\* A registry that resolves the name as soon as the actor is spawned,
\* whatever register returned.
Resolvable_Spawned(c) ==
    /\ target[c] = "server"
    /\ spawned["cli"]
    /\ srvState["cli"] = "up"

\* The name can be resolved by client c now.
Resolvable(c) ==
    /\ target[c] = "server"
    /\ registered = "visible"
    /\ srvState["cli"] = "up"

\* ping-cli-client: lookup("ping_actor") returned Some(actor).
CliLookup(c) ==
    /\ cliPc[c] = "lookup"
    /\ Resolvable(c)
    /\ cliPc' = [cliPc EXCEPT ![c] = "ask"]
    /\ UNCHANGED <<ping_count, mailbox, slot, asked, enq, replies, abandoned,
                   wsVars, cliI, cliLog, cliErr, target, retries, srvVars>>

\* A client that goes on to its ask loop when lookup returned None.
CliLookupNone_Proceed(c) ==
    /\ cliPc[c] = "lookup"
    /\ ~Resolvable(c)
    /\ cliPc' = [cliPc EXCEPT ![c] = "ask"]
    /\ retries' = [retries EXCEPT ![c] = IF @ < MaxRetries THEN @ + 1 ELSE @]
    /\ UNCHANGED <<ping_count, mailbox, slot, asked, enq, replies, abandoned,
                   wsVars, cliI, cliLog, cliErr, target, srvVars>>

\* ping-cli-client: lookup("ping_actor") returned None: warn (the lines
\* are counted up to MaxRetries) and sleep 3 s.
CliLookupNone(c) ==
    /\ cliPc[c] = "lookup"
    /\ ~Resolvable(c)
    /\ cliPc' = [cliPc EXCEPT ![c] = "retry"]
    /\ retries' = [retries EXCEPT ![c] = IF @ < MaxRetries THEN @ + 1 ELSE @]
    /\ UNCHANGED <<ping_count, mailbox, slot, asked, enq, replies, abandoned,
                   wsVars, cliI, cliLog, cliErr, target, srvVars>>

\* ping-cli-client: the 3 s sleep is over, the loop looks up again.
CliRetry(c) ==
    /\ cliPc[c] = "retry"
    /\ cliPc' = [cliPc EXCEPT ![c] = "lookup"]
    /\ UNCHANGED <<ping_count, mailbox, slot, asked, enq, replies, abandoned,
                   wsVars, cliI, cliLog, cliErr, target, retries, srvVars>>

\* ping-cli-client: lookup("ping_actor") returned Err: the ? operator ends
\* main with the error, the process exits with a failure status.
CliLookupErr(c) ==
    /\ cliPc[c] = "lookup"
    /\ ~Resolvable(c)
    /\ cliPc' = [cliPc EXCEPT ![c] = "failed"]
    /\ UNCHANGED <<ping_count, mailbox, slot, asked, enq, replies, abandoned,
                   wsVars, cliI, cliLog, cliErr, target, retries, srvVars>>

\* Turns numbered from 0.
CliPing_ZeroBased(i) ==
    Ping("Hello from CLI client #" \o ToString(i - 1), ToDigits(i - 1))

\* The Ping of the client's i-th turn.
CliPing(i) == Ping("Hello from CLI client #" \o ToString(i), ToDigits(i))

\* The loop's next position after turn i.
AfterTurn(i) == IF i < NumPings THEN "ask" ELSE "done"

\* ping-cli-client: remote_actor.ask(&ping) of turn i reaches the server.
CliAsk(c) ==
    /\ cliPc[c] = "ask"
    /\ cliI[c] <= NumPings
    /\ srvState["cli"] = "up"
    /\ Submit(c, CliPing(cliI[c]))
    /\ cliPc' = [cliPc EXCEPT ![c] = "wait"]
    /\ UNCHANGED <<ping_count, replies, abandoned, wsVars, cliI, cliLog,
                   cliErr, target, retries, srvVars>>

\* ping-cli-client: the ask returned Ok(pong_reply); log it, next turn.
CliReply(c) ==
    /\ cliPc[c] = "wait"
    /\ slot[c].state = "ready"
    /\ cliLog' = [cliLog EXCEPT ![c] = Append(@, slot[c].pong)]
    /\ slot' = [slot EXCEPT ![c].state = "none"]
    /\ cliI' = [cliI EXCEPT ![c] = @ + 1]
    /\ cliPc' = [cliPc EXCEPT ![c] = AfterTurn(cliI[c])]
    /\ UNCHANGED <<ping_count, mailbox, asked, enq, replies, abandoned,
                   wsVars, cliErr, target, retries, srvVars>>

\* ping-cli-client: the ask of turn i returned Err before the request
\* reached the server's mailbox; "Error: ..." is logged, next turn.
CliAskFail(c) ==
    /\ cliPc[c] = "ask"
    /\ cliI[c] <= NumPings
    /\ asked' = [asked EXCEPT ![c] = Append(@, CliPing(cliI[c]))]
    /\ cliErr' = [cliErr EXCEPT ![c] = Append(@, cliI[c])]
    /\ cliI' = [cliI EXCEPT ![c] = @ + 1]
    /\ cliPc' = [cliPc EXCEPT ![c] = AfterTurn(cliI[c])]
    /\ UNCHANGED <<ping_count, mailbox, slot, enq, replies, abandoned,
                   wsVars, cliLog, target, retries, srvVars>>

\* A pending ask without timeout or failure detection.
CliAskErr_Never(c) == FALSE /\ UNCHANGED vars

\* A client that repeats the turn whose ask returned Err.
CliAskErr_Resend(c) ==
    /\ cliPc[c] = "wait"
    /\ slot[c].state = "waiting"
    /\ slot' = [slot EXCEPT ![c].state = "none"]
    /\ abandoned' = [abandoned EXCEPT ![c] = @ \cup {slot[c].id}]
    /\ cliErr' = [cliErr EXCEPT ![c] = Append(@, cliI[c])]
    /\ cliPc' = [cliPc EXCEPT ![c] = "ask"]
    /\ UNCHANGED <<ping_count, mailbox, asked, enq, replies, wsVars, cliI,
                   cliLog, target, retries, srvVars>>

\* ping-cli-client: the pending ask of turn i returned Err (the 120 s
\* request timeout fired or the connection closed); the client gives the
\* ask up, logs "Error: ..." and goes on with the next turn.
CliAskErr(c) ==
    /\ cliPc[c] = "wait"
    /\ slot[c].state = "waiting"
    /\ slot' = [slot EXCEPT ![c].state = "none"]
    /\ abandoned' = [abandoned EXCEPT ![c] = @ \cup {slot[c].id}]
    /\ cliErr' = [cliErr EXCEPT ![c] = Append(@, cliI[c])]
    /\ cliI' = [cliI EXCEPT ![c] = @ + 1]
    /\ cliPc' = [cliPc EXCEPT ![c] = AfterTurn(cliI[c])]
    /\ UNCHANGED <<ping_count, mailbox, asked, enq, replies, wsVars, cliLog,
                   target, retries, srvVars>>

\* ------------------------------------------------------------- shutdown

\* What the end of server process s leaves in the reply slot of caller c:
\* the browser of a connection with a request under way sees the
\* connection close; a native client's pending ask is still waiting, until
\* its connection's close or its timeout is noticed.
SlotAtStop(s, c, sl) ==
    IF ServerOf(c) = s /\ c \in Conns /\ sl.state \in {"waiting", "ready"}
    THEN [sl EXCEPT !.state = "disconnected"]
    ELSE sl

\* The server process ends. ping-cli-server: ctrl_c() completes, the event
\* loop breaks and main returns. ping-http-server installs no handler, so
\* the signal ends the process. Either way the runtime and every task on it
\* (the actor, each handle_socket) are gone; nothing is drained.
ServerStop(s) ==
    /\ srvState[s] # "down"
    /\ srvState' = [srvState EXCEPT ![s] = "down"]
    /\ slot' = [c \in Callers |-> SlotAtStop(s, c, slot[c])]
    /\ wsPc' = [c \in Conns |->
                  IF ServerOf(c) = s /\ wsPc[c] # "idle" THEN "done" ELSE wsPc[c]]
    /\ UNCHANGED <<ping_count, spawned, registered, mailbox, asked, enq,
                   replies, abandoned, inbox, out, lastRead, warns, nframes,
                   askErrs, cliVars>>

\* --------------------------------------------------------- specification

RECURSIVE SumLen(_, _)
SumLen(f, S) ==
    IF S = {} THEN 0
    ELSE LET x == CHOOSE y \in S : TRUE IN Len(f[x]) + SumLen(f, S \ {x})

\* Frames sent by the browser clients and asks issued by the native
\* clients so far.
RequestsSoFar == nframes + SumLen(asked, CliClients)

Next ==
    \/ \E s \in Servers : ActorHandle(s)
    \/ \E c \in Conns : websocket_handler(c)
    \/ \E c \in Conns, f \in ClientFrames : RequestsSoFar < MaxRequests /\ ClientSend(c, f)
    \/ \E c \in Conns : WsRecv(c)
    \/ \E c \in Conns : WsSendOk(c)
    \/ \E c \in Conns : WsSendFail(c)
    \/ CliServerSpawn
    \/ Propagate
    \/ \E c \in CliClients : CliLookup(c)
    \/ \E c \in CliClients : RequestsSoFar < MaxRequests /\ CliAsk(c)
    \/ \E c \in CliClients : CliReply(c)

Spec == Init /\ [][Next]_vars

\* The same processes, with asks of the native clients that end in Err
\* while the request is in the server's mailbox.
NextCancel ==
    \/ \E s \in Servers : ActorHandle(s)
    \/ \E c \in Conns : websocket_handler(c)
    \/ \E c \in Conns, f \in ClientFrames : RequestsSoFar < MaxRequests /\ ClientSend(c, f)
    \/ \E c \in Conns : WsRecv(c)
    \/ \E c \in Conns : WsSendOk(c)
    \/ \E c \in Conns : WsSendFail(c)
    \/ CliServerSpawn
    \/ Propagate
    \/ \E c \in CliClients : CliLookup(c)
    \/ \E c \in CliClients : RequestsSoFar < MaxRequests /\ CliAsk(c)
    \/ \E c \in CliClients : CliReply(c)
    \/ \E c \in CliClients : CliAskErr(c)

SpecCancel == Init /\ [][NextCancel]_vars

\* One native client against the CLI server, from the start of both mains,
\* with every outcome of register, lookup and ask.
SoloClients == {"cli1"}

NextCli ==
    \/ \E c \in SoloClients, a \in Addrs : CliStart(c, a)
    \/ CliServerSpawn
    \/ CliServerRegisterFail
    \/ Propagate
    \/ \E c \in SoloClients : CliLookup(c)
    \/ \E c \in SoloClients : CliLookupNone(c)
    \/ \E c \in SoloClients : CliRetry(c)
    \/ \E c \in SoloClients : CliLookupErr(c)
    \/ \E c \in SoloClients : CliAsk(c)
    \/ \E c \in SoloClients : CliReply(c)
    \/ \E c \in SoloClients : Len(cliErr[c]) < MaxFaults /\ CliAskFail(c)
    \/ \E c \in SoloClients : Len(cliErr[c]) < MaxFaults /\ CliAskErr(c)
    \/ ActorHandle("cli")

SpecCli == InitCli /\ [][NextCli]_vars

\* The scheduler runs every task that can take a step: the actor's message
\* loop and the client's main. What lookup and ask return is not the
\* scheduler's to decide: a lookup that can return the handle does, an ask
\* is issued, a sleep ends, a reply that has arrived is taken; that a lookup
\* or a pending ask returns Err is never forced.
FairCli ==
    /\ WF_vars(ActorHandle("cli"))
    /\ WF_vars(CliServerSpawn \/ CliServerRegisterFail)
    /\ WF_vars(Propagate)
    /\ \A c \in SoloClients :
          /\ WF_vars(\E a \in Addrs : CliStart(c, a))
          /\ WF_vars(CliLookup(c))
          /\ WF_vars(CliRetry(c))
          /\ WF_vars(CliAsk(c) \/ CliAskFail(c))
          /\ WF_vars(CliReply(c))

SpecCliFair == SpecCli /\ FairCli

\* The HTTP server and its browser clients, sending the request
\* {"message":"hi","sequence":42} as an object, as an object with a member
\* Ping does not have, and as an array.
WireFrames ==
    { TextFrame(PingToJson(Ping("hi", <<4, 2>>))),
      TextFrame(JsonObj([message |-> JStr("hi"),
                         sequence |-> JNum(FALSE, <<4, 2>>, FALSE),
                         total_pings |-> JNum(FALSE, <<7>>, FALSE)])),
      TextFrame(JsonArr(<<JStr("hi"), JNum(FALSE, <<4, 2>>, FALSE)>>)),
      TextFrame(NotJson) }

NextWire ==
    \/ ActorHandle("http")
    \/ \E c \in Conns : websocket_handler(c)
    \/ \E c \in Conns, f \in WireFrames : RequestsSoFar < MaxRequests /\ ClientSend(c, f)
    \/ \E c \in Conns : WsRecv(c)
    \/ \E c \in Conns : WsSendOk(c)
    \/ \E c \in Conns : WsSendFail(c)

SpecWire == Init /\ [][NextWire]_vars

\* The HTTP server with its counter at the end of the u64 range: the
\* increment wraps (overflow checks off) or panics (overflow checks on).
OverflowFrames ==
    { TextFrame(PingToJson(Ping("hi", <<0>>))), TextFrame(NotJson), CloseFrame }

NextOverflow ==
    \/ ActorHandle("http")
    \/ ActorPanic("http")
    \/ \E c \in Conns : websocket_handler(c)
    \/ \E c \in Conns, f \in OverflowFrames :
          RequestsSoFar < MaxRequests /\ ClientSend(c, f)
    \/ \E c \in Conns : WsRecv(c)
    \/ \E c \in Conns : WsSendOk(c)
    \/ \E c \in Conns : WsSendFail(c)
    \/ \E c \in Conns : WsAskErr(c)

SpecOverflow == InitOverflow /\ [][NextOverflow]_vars

\* Both servers with their clients, and the end of either server process.
ShutdownFrames == {TextFrame(t) : t \in GoodTexts}
\* One browser connection.
SoloConns == {"ws1"}

NextShutdown ==
    \/ \E s \in Servers : ActorHandle(s)
    \/ \E s \in Servers : ServerStop(s)
    \/ \E c \in SoloConns : websocket_handler(c)
    \/ \E c \in SoloConns, f \in ShutdownFrames :
          RequestsSoFar < MaxRequests /\ ClientSend(c, f)
    \/ \E c \in SoloConns : WsRecv(c)
    \/ \E c \in SoloConns : WsSendOk(c)
    \/ CliServerSpawn
    \/ Propagate
    \/ \E c \in SoloClients : CliLookup(c)
    \/ \E c \in SoloClients : RequestsSoFar < MaxRequests /\ CliAsk(c)
    \/ \E c \in SoloClients : RequestsSoFar < MaxRequests /\ CliAskFail(c)
    \/ \E c \in SoloClients : CliReply(c)
    \/ \E c \in SoloClients : CliAskErr(c)

\* Tasks that can run are run, and the native client's request timeout
\* fires: an ask that stays pending returns Err after 120 s at the latest.
FairShutdown ==
    /\ \A s \in Servers : WF_vars(ActorHandle(s))
    /\ \A c \in SoloConns : WF_vars(WsRecv(c)) /\ WF_vars(WsSendOk(c))
    /\ \A c \in SoloClients : WF_vars(CliReply(c)) /\ WF_vars(CliAskErr(c))

SpecShutdown == Init /\ [][NextShutdown]_vars /\ FairShutdown

\* ----------------------------------------------------------------- claims

Last(q) == q[Len(q)]

\* Whether digit string a denotes a smaller number than b.
DigitsLess(a, b) == a # b /\ DigitsLeq(a, b)

\* C1: ping_count starts at 0; a handled Ping raises it by exactly 1 and the
\* reply's total_pings is the raised value; after k handled requests
\* ping_count = k; no step other than handling a Ping changes ping_count.
C1_CountIsHandled ==
    \A s \in Servers :
        /\ ping_count[s] = ToDigits(Len(replies[s]))
        /\ \A k \in 1..Len(replies[s]) : replies[s][k].pong.total_pings = ToDigits(k)

C1_Step ==
    \A s \in Servers :
        /\ ping_count'[s] # ping_count[s] =>
              /\ ping_count'[s] = ToDigits(Len(replies[s]) + 1)
              /\ Len(replies'[s]) = Len(replies[s]) + 1
              /\ Len(mailbox'[s]) = Len(mailbox[s]) - 1
              /\ Last(replies'[s]).pong.total_pings = ping_count'[s]
        /\ Len(replies'[s]) # Len(replies[s]) =>
              ping_count'[s] = ToDigits(Len(replies[s]) + 1)

C1_PingCount ==
    /\ \A s \in Servers : ping_count[s] = <<0>>
    /\ [](C1_CountIsHandled)
    /\ [][C1_Step]_vars

C1_Witness == \E s \in Servers : ping_count[s] = <<3>> /\ Len(replies[s]) = 3

\* C2: every reply carries its request's sequence unchanged, 0 and 2^64-1
\* included, and the message "Pong! Responding to: " followed by the
\* request's message; a well-formed frame is submitted with the sequence
\* and message it carries.
C2_Echo ==
    /\ \A s \in Servers : \A k \in 1..Len(replies[s]) :
          /\ replies[s][k].pong.sequence = replies[s][k].req.sequence
          /\ replies[s][k].pong.message = "Pong! Responding to: " \o replies[s][k].req.message
    /\ \A c \in Conns :
          lastRead[c] \in {TextFrame(t) : t \in GoodTexts} =>
              /\ asked[c] # <<>>
              /\ Last(asked[c]).sequence = lastRead[c].text.obj.sequence.digits
              /\ Last(asked[c]).message = lastRead[c].text.obj.message.s
    /\ \A c \in Conns : \A k \in 1..Len(out[c]) :
          /\ out[c][k].obj.sequence.digits = asked[c][k].sequence
          /\ out[c][k].obj.message.s = "Pong! Responding to: " \o asked[c][k].message

C2_Witness ==
    \E c \in Conns :
        /\ Len(out[c]) = 2
        /\ out[c][1].obj.sequence.digits = U64MaxDigits
        /\ out[c][1].obj.message.s = "Pong! Responding to: yo"
        /\ out[c][2].obj.sequence.digits = <<0>>

\* The total_pings values of the reply frames sent on connection c.
OutTotals(c) == {out[c][k].obj.total_pings.digits : k \in 1..Len(out[c])}

\* C3: on the HTTP server every accepted request is pending or answered, the
\* total_pings of the N replies are exactly 1..N, each once, whatever the
\* interleaving of the connections, no total reaches two connections, and
\* each connection sees the sequences of its own requests, in order.
C3_WsTotals ==
    LET R == replies["http"]
    IN  /\ Len(R) + Len(mailbox["http"]) = Len(enq["http"])
        /\ Len(enq["http"]) = SumLen(asked, Conns)
        /\ {R[k].pong.total_pings : k \in 1..Len(R)} = {ToDigits(n) : n \in 1..Len(R)}
        /\ \A j, k \in 1..Len(R) : j # k => R[j].pong.total_pings # R[k].pong.total_pings
        /\ \A c \in Conns :
              /\ OutTotals(c) \subseteq {ToDigits(n) : n \in 1..Len(R)}
              /\ Cardinality(OutTotals(c)) = Len(out[c])
              /\ \A d \in Conns \ {c} : OutTotals(c) \cap OutTotals(d) = {}
              /\ \A k \in 1..Len(out[c]) :
                    out[c][k].obj.sequence.digits = asked[c][k].sequence

C3_Witness ==
    /\ OutTotals("ws1") = {<<1>>, <<3>>}
    /\ OutTotals("ws2") = {<<2>>}
    /\ mailbox["http"] = <<>>

\* The replies actor s produced for caller c, in order.
RepliesFor(s, c) ==
    LET Mine(e) == e.from = c IN SelectSeq(replies[s], Mine)

\* All replies of all server processes.
AllReplies == replies["http"] \o replies["cli"]

C5_StrictlyIncreasing ==
    /\ \A c \in Conns : \A j, k \in 1..Len(out[c]) :
          j < k => DigitsLess(out[c][j].obj.total_pings.digits,
                              out[c][k].obj.total_pings.digits)
    /\ \A c \in CliClients : \A j, k \in 1..Len(cliLog[c]) :
          j < k => DigitsLess(cliLog[c][j].total_pings, cliLog[c][k].total_pings)

C5_Witness ==
    \E c \in CliClients :
        /\ Len(cliLog[c]) = 2
        /\ cliLog[c][1].total_pings = <<1>>
        /\ cliLog[c][2].total_pings = <<3>>

\* C6: the k-th reply frame sent on a connection is the reply to the k-th
\* request submitted on that connection, and every frame sent on a
\* connection is a reply the actor produced for that connection.
C6_ReplyOrder ==
    \A c \in Conns :
        LET mine == RepliesFor("http", c)
        IN  /\ Len(out[c]) <= Len(mine)
            /\ Len(mine) <= Len(asked[c])
            /\ \A k \in 1..Len(mine) : mine[k].req = asked[c][k]
            /\ \A k \in 1..Len(out[c]) :
                  /\ out[c][k] = PongToJson(mine[k].pong)
                  /\ out[c][k].obj.sequence.digits = asked[c][k].sequence

C6_Witness ==
    /\ Len(out["ws1"]) = 2
    /\ asked["ws1"][1].sequence = U64MaxDigits
    /\ asked["ws1"][2].sequence = <<0>>
    /\ Len(out["ws2"]) = 1
    /\ asked["ws2"][1].sequence = <<0>>

\* C7: the actor handles envelopes one at a time in the order its mailbox
\* accepted them: the k-th accepted envelope is the k-th handled and its
\* reply carries total_pings = k; what is not yet handled is still queued
\* in that order.
C7_MailboxOrder ==
    \A s \in Servers :
        /\ Len(replies[s]) <= Len(enq[s])
        /\ \A k \in 1..Len(replies[s]) :
              /\ replies[s][k].from = enq[s][k].from
              /\ replies[s][k].req = enq[s][k].msg
              /\ replies[s][k].pong.total_pings = ToDigits(k)
        /\ mailbox[s] = SubSeq(enq[s], Len(replies[s]) + 1, Len(enq[s]))

C7_Witness ==
    \E s \in Servers :
        /\ Len(replies[s]) = 1
        /\ Len(mailbox[s]) = 2
        /\ mailbox[s][1].from # mailbox[s][2].from

\* handle_socket of connection c reads the frame at the head of its inbox
\* in this step.
Reads(c) == inbox[c] # <<>> /\ inbox'[c] = Tail(inbox[c])

\* Nothing is submitted, handled or sent in this step, and c keeps reading.
SkippedStep(c) ==
    /\ wsPc'[c] = "recv"
    /\ UNCHANGED <<ping_count, mailbox, enq, asked, slot, replies, out>>

\* C8: a text frame that is no Request is skipped: handle_socket logs it,
\* submits nothing (ping_count unchanged), sends nothing and keeps reading;
\* the well-formed frames read on the connection are all submitted,
\* whatever malformed frames came before them.
C8_Step ==
    \A c \in Conns :
        (Reads(c) /\ Head(inbox[c]).kind = "text" /\ Head(inbox[c]).text \in BadTexts)
            => SkippedStep(c) /\ warns'[c] = warns[c] + 1

C8_State ==
    /\ \A t \in BadTexts : ~ParsePing(t).ok /\ RecvOutcome(TextFrame(t)) = "warn"
    /\ \A c \in Conns :
          (lastRead[c].kind = "text" /\ lastRead[c].text \in BadTexts) =>
              /\ wsPc[c] = "recv"
              /\ inbox[c] # <<>> => ENABLED WsRecv(c)

C8_MalformedSkipped == [](C8_State) /\ [][C8_Step]_vars

C8_Witness ==
    \E c \in Conns :
        /\ warns[c] = 2
        /\ lastRead[c] \in {TextFrame(t) : t \in GoodTexts}
        /\ Len(asked[c]) = 1
        /\ Len(out[c]) = 1
        /\ wsPc[c] = "recv"

\* C9: a binary frame, like every frame of the match's _ arm, is ignored:
\* reading it changes neither ping_count nor any mailbox, sends no frame,
\* logs nothing and leaves the connection reading.
C9_Step ==
    \A c \in Conns :
        (Reads(c) /\ Head(inbox[c]) \in OtherFrames)
            => SkippedStep(c) /\ warns'[c] = warns[c]

C9_State ==
    /\ \A f \in OtherFrames : RecvOutcome(f) = "ignore"
    /\ \A c \in Conns :
          lastRead[c] \in OtherFrames =>
              /\ wsPc[c] = "recv"
              /\ inbox[c] # <<>> => ENABLED WsRecv(c)

C9_BinaryIgnored == [](C9_State) /\ [][C9_Step]_vars

C9_Witness ==
    \E c \in Conns :
        /\ lastRead[c] = BinaryFrame
        /\ wsPc[c] = "recv"
        /\ Len(out[c]) = 1
        /\ inbox[c] # <<>>

\* q is a prefix of r.
IsPrefix(q, r) == Len(q) <= Len(r) /\ SubSeq(r, 1, Len(q)) = q

\* C10: a close frame ends handle_socket: the step that reads it submits
\* and sends nothing, and from then on the connection reads no frame,
\* submits nothing and sends nothing; the actor and the other connections
\* are not held up by it.
C10_Step ==
    \A c \in Conns :
        /\ (Reads(c) /\ Head(inbox[c]).kind = "close") =>
              /\ wsPc'[c] = "done"
              /\ UNCHANGED <<ping_count, mailbox, enq, asked, slot, replies, out>>
        /\ wsPc[c] = "done" =>
              /\ wsPc'[c] = "done"
              /\ IsPrefix(inbox[c], inbox'[c])
              /\ lastRead'[c] = lastRead[c]
              /\ asked'[c] = asked[c]
              /\ out'[c] = out[c]
              /\ slot'[c] = slot[c]

C10_State ==
    \A c \in Conns :
        lastRead[c].kind = "close" =>
            /\ wsPc[c] = "done"
            /\ ~ENABLED WsRecv(c)
            /\ ~ENABLED WsSendOk(c)
            /\ mailbox["http"] # <<>> => ENABLED ActorHandle("http")
            /\ \A d \in Conns \ {c} :
                  (wsPc[d] = "recv" /\ inbox[d] # <<>>) => ENABLED WsRecv(d)

C10_CloseTerminates == [](C10_State) /\ [][C10_Step]_vars

C10_Witness ==
    \E c \in Conns :
        /\ lastRead[c] = CloseFrame
        /\ wsPc[c] = "done"
        /\ inbox[c] # <<>>
        /\ Head(inbox[c]) \in {TextFrame(t) : t \in GoodTexts}
        /\ \E d \in Conns \ {c} : wsPc[d] = "ask" /\ mailbox["http"] # <<>>

\* The envelopes of caller c that actor s has handled for ask number n.
HandledFor(s, c, n) ==
    {k \in 1..Len(replies[s]) : replies[s][k].from = c /\ replies[s][k].id = n}

\* The envelopes of ask number n of caller c still in the mailbox of s.
QueuedFor(s, c, n) ==
    {k \in 1..Len(mailbox[s]) : mailbox[s][k].from = c /\ mailbox[s][k].id = n}

\* The total_pings values some caller has received: in a reply frame of a
\* connection or in a reply a native client logged.
ReceivedTotals(s) ==
    IF s = "http" THEN UNION {OutTotals(c) : c \in Conns}
    ELSE UNION {{cliLog[c][k].total_pings : k \in 1..Len(cliLog[c])} : c \in CliClients}

\* C11: an ask its caller has given up on after submitting it (the native
\* client's ask returned Err while pending, or a connection's send of the
\* reply failed) is still handled: it is in the mailbox, where the actor can
\* take it, or it was handled exactly once; the k-th handled request gets
\* total_pings k, abandoned ones counted; and the reply of an abandoned ask
\* reaches no caller.
C11_State ==
    /\ \A s \in Servers :
          \A k \in 1..Len(replies[s]) : replies[s][k].pong.total_pings = ToDigits(k)
    /\ \A c \in Callers : \A n \in abandoned[c] :
          LET s == ServerOf(c)
              H == HandledFor(s, c, n)
              Q == QueuedFor(s, c, n)
          IN  /\ Cardinality(H) + Cardinality(Q) = 1
              /\ Q # {} => \E t \in Servers : ENABLED ActorHandle(t)
              /\ \A k \in H :
                    /\ replies[s][k].req = asked[c][n]
                    /\ c \in CliClients =>
                          replies[s][k].pong.total_pings \notin ReceivedTotals(s)
                    /\ c \in Conns =>
                          \A j \in 1..Len(out[c]) : out[c][j] # PongToJson(replies[s][k].pong)

\* Handling an abandoned ask raises the counter by one and changes no
\* caller's slot.
C11_Step ==
    \A s \in Servers :
        (/\ Len(replies'[s]) = Len(replies[s]) + 1
         /\ Last(replies'[s]).id \in abandoned[Last(replies'[s]).from])
            => /\ ping_count'[s] = ToDigits(Len(replies[s]) + 1)
               /\ slot' = slot
               /\ out' = out
               /\ cliLog' = cliLog

C11_AbandonedStillCounted == [](C11_State) /\ [][C11_Step]_vars

C11_Witness ==
    /\ abandoned["cli1"] = {1}
    /\ HandledFor("cli", "cli1", 1) = {1}
    /\ Len(cliLog["cli2"]) = 1
    /\ cliLog["cli2"][1].total_pings = <<2>>
    /\ cliLog["cli1"] = <<>>

\* C12: while the name is not registered and visible, a lookup gives no
\* handle: the client warns, stays in its lookup loop and looks up again;
\* once the registration is visible a lookup returns the handle, and the
\* loop of a client that dialed the server then ends with the handle.
C12_State ==
    \A c \in SoloClients :
        /\ (cliPc[c] = "lookup" /\ registered # "visible") =>
              /\ ~ENABLED CliLookup(c)
              /\ ENABLED CliLookupNone(c)
        /\ cliPc[c] = "retry" => ENABLED CliRetry(c)
        /\ (cliPc[c] = "lookup" /\ target[c] = "server" /\ registered = "visible") =>
              /\ ENABLED CliLookup(c)
              /\ ~ENABLED CliLookupNone(c)
              /\ ~ENABLED CliLookupErr(c)
        /\ cliPc[c] \in {"ask", "wait", "done"} => registered = "visible"

C12_Step ==
    \A c \in SoloClients :
        /\ (retries'[c] # retries[c] \/ cliPc'[c] = "retry") =>
              /\ ~(target[c] = "server" /\ registered = "visible")
              /\ cliPc[c] \in {"lookup", "retry"}
              /\ cliPc'[c] = "retry"
              /\ asked'[c] = asked[c]
        /\ cliPc[c] = "retry" => cliPc'[c] \in {"retry", "lookup"}
        /\ (cliPc[c] = "lookup" /\ cliPc'[c] = "ask") => registered = "visible"

C12_Live ==
    \A c \in SoloClients :
        (cliPc[c] \in {"lookup", "retry"} /\ target[c] = "server" /\ registered = "visible")
            ~> (cliPc[c] = "ask")

C12_LookupResolves == [](C12_State) /\ [][C12_Step]_vars /\ C12_Live

C12_Witness ==
    /\ retries["cli1"] = MaxRetries
    /\ cliPc["cli1"] = "ask"
    /\ registered = "visible"

\* C13: against a fresh CLI server, with one native client as the only
\* submitter and no ask ending in Err, the client submits exactly the 10
\* requests of sequences 1..10 in order, the next one only after the reply
\* to the one before, and logs the 10 replies in order: reply i has
\* sequence i, total_pings i and the message
\* "Pong! Responding to: Hello from CLI client #<i>".
C13_State ==
    \A c \in SoloClients :
        (cliErr[c] = <<>> /\ \A d \in Callers \ {c} : asked[d] = <<>>) =>
            /\ Len(asked[c]) <= 10
            /\ \A k \in 1..Len(asked[c]) :
                  asked[c][k] = Ping("Hello from CLI client #" \o ToString(k), ToDigits(k))
            /\ enq["cli"] = [k \in 1..Len(asked[c]) |->
                                [from |-> c, msg |-> asked[c][k], id |-> k]]
            /\ Len(mailbox["cli"]) <= 1
            /\ Len(asked[c]) = Len(cliLog[c]) + (IF cliPc[c] = "wait" THEN 1 ELSE 0)
            /\ \A k \in 1..Len(cliLog[c]) :
                  cliLog[c][k] =
                      Pong("Pong! Responding to: Hello from CLI client #" \o ToString(k),
                           ToDigits(k), ToDigits(k))
            /\ cliPc[c] = "done" => Len(cliLog[c]) = 10

\* A request is submitted only when every earlier one has its reply or its
\* error.
C13_Step ==
    \A c \in SoloClients :
        asked'[c] # asked[c] =>
            /\ Len(asked'[c]) = Len(asked[c]) + 1
            /\ Len(cliLog[c]) + Len(cliErr[c]) = Len(asked[c])
            /\ slot[c].state = "none"

C13_TenInOrder == [](C13_State) /\ [][C13_Step]_vars

C13_Witness ==
    /\ cliPc["cli1"] = "done"
    /\ Len(cliLog["cli1"]) = 10
    /\ cliErr["cli1"] = <<>>
    /\ cliLog["cli1"][10].total_pings = <<1, 0>>
    /\ ping_count["cli"] = <<1, 0>>

\* The sequence numbers of the envelopes caller c got into the mailbox.
EnqueuedSeqs(c) ==
    LET Mine(e) == e.from = c
        mine == SelectSeq(enq[ServerOf(c)], Mine)
    IN  [k \in 1..Len(mine) |-> mine[k].msg.sequence]

\* C14: an ask of the native client that returns Err is logged with its
\* turn and not repeated: the client goes on with the next turn, the asks
\* it issues are those of sequences 1, 2, ... each once, 10 when the loop
\* is over however many failed, and no request reaches the mailbox twice.
C14_State ==
    \A c \in SoloClients :
        /\ Len(asked[c]) <= 10
        /\ \A k \in 1..Len(asked[c]) : asked[c][k].sequence = ToDigits(k)
        /\ Len(asked[c]) =
              Len(cliLog[c]) + Len(cliErr[c]) + (IF cliPc[c] = "wait" THEN 1 ELSE 0)
        /\ cliPc[c] \in {"ask", "wait", "done"} =>
              cliI[c] = Len(cliLog[c]) + Len(cliErr[c]) + 1
        /\ \A j, k \in 1..Len(cliErr[c]) : j < k => cliErr[c][j] < cliErr[c][k]
        /\ \A k \in 1..Len(cliErr[c]) : cliErr[c][k] \in 1..Len(asked[c])
        /\ \A k \in 1..Len(cliLog[c]) : \A j \in 1..Len(cliErr[c]) :
              cliLog[c][k].sequence # ToDigits(cliErr[c][j])
        /\ \A j, k \in 1..Len(EnqueuedSeqs(c)) :
              j < k => DigitsLess(EnqueuedSeqs(c)[j], EnqueuedSeqs(c)[k])
        /\ cliPc[c] = "done" => Len(asked[c]) = 10

C14_Step ==
    \A c \in SoloClients :
        cliErr'[c] # cliErr[c] =>
            /\ cliErr'[c] = Append(cliErr[c], cliI[c])
            /\ cliI'[c] = cliI[c] + 1
            /\ cliPc'[c] = IF cliI[c] < 10 THEN "ask" ELSE "done"
            /\ enq' = enq
            /\ mailbox' = mailbox

C14_NoRetry == [](C14_State) /\ [][C14_Step]_vars

C14_Witness ==
    /\ cliPc["cli1"] = "done"
    /\ Len(cliErr["cli1"]) = 2
    /\ Len(cliLog["cli1"]) = 8
    /\ Cardinality(abandoned["cli1"]) = 1
    /\ Len(enq["cli"]) = 9

\* C16: when register("ping_actor") fails the server process stays up with
\* its event loop, never registers again, and no lookup resolves to its
\* actor: no client gets a handle, nothing reaches the actor's mailbox and
\* its counter stays 0; clients keep finding nothing.
C16_State ==
    registered = "failed" =>
        /\ srvState["cli"] = "up"
        /\ ~ENABLED CliServerSpawn
        /\ ~ENABLED Propagate
        /\ enq["cli"] = <<>>
        /\ ping_count["cli"] = <<0>>
        /\ \A c \in SoloClients :
              /\ ~ENABLED CliLookup(c)
              /\ cliPc[c] \notin {"ask", "wait", "done"}
              /\ cliPc[c] = "lookup" => ENABLED CliLookupNone(c)

C16_Step ==
    /\ registered = "failed" => registered' = "failed"
    /\ registered' = "failed" => srvState'["cli"] = "up"

C16_RegisterFailure == [](C16_State) /\ [][C16_Step]_vars

C16_Witness ==
    /\ registered = "failed"
    /\ srvState["cli"] = "up"
    /\ retries["cli1"] = MaxRetries
    /\ cliPc["cli1"] = "lookup"
    /\ target["cli1"] = "server"

\* C15 as stated: a client started with the multiaddress of a port nobody
\* listens on eventually terminates with a failure status.
C15_DeadPortExits ==
    \A c \in SoloClients : (target[c] = "dead") ~> (cliPc[c] = "failed")

\* The callers of server s.
CallersOf(s) == {c \in Callers : ServerOf(c) = s}

\* C17: once a server process has got its shutdown signal and ended,
\* nothing is submitted to its actor and the actor handles nothing; an ask
\* that was pending then does not stay pending: the browser's connections
\* are closed with the process, and the native client's ask returns its
\* reply, if that had arrived, or Err.
C17_State ==
    \A s \in Servers :
        srvState[s] = "down" =>
            /\ ~ENABLED ActorHandle(s)
            /\ \A c \in CallersOf(s) \cap Conns :
                  /\ ~ENABLED websocket_handler(c)
                  /\ ~ENABLED WsRecv(c)
                  /\ slot[c].state \in {"none", "disconnected"}
            /\ \A c \in CallersOf(s) \cap CliClients :
                  /\ ~ENABLED CliAsk(c)
                  /\ ~ENABLED CliLookup(c)
                  /\ slot[c].state = "waiting" => ENABLED CliAskErr(c)
                  /\ slot[c].state = "ready" => ENABLED CliReply(c)

C17_Step ==
    \A s \in Servers :
        srvState[s] = "down" =>
            /\ srvState'[s] = "down"
            /\ ping_count'[s] = ping_count[s]
            /\ replies'[s] = replies[s]
            /\ enq'[s] = enq[s]
            /\ mailbox'[s] = mailbox[s]

C17_Live ==
    \A c \in SoloConns \cup SoloClients :
        (srvState[ServerOf(c)] = "down") ~> (slot[c].state \notin {"waiting", "ready"})

C17_Shutdown == [](C17_State) /\ [][C17_Step]_vars /\ C17_Live

C17_Witness ==
    /\ srvState["cli"] = "down"
    /\ srvState["http"] = "down"
    /\ mailbox["cli"] # <<>>
    /\ abandoned["cli1"] = {1}
    /\ cliErr["cli1"] = <<1>>
    /\ \E c \in Conns : slot[c].state = "disconnected" /\ mailbox["http"] # <<>>

\* A reply frame's text: a JSON object with exactly the members message
\* (a string), sequence and total_pings (u64 literals).
WireFormat(j) ==
    /\ j.form = "object"
    /\ DOMAIN j.obj = {"message", "sequence", "total_pings"}
    /\ j.obj.message.t = "string"
    /\ IsU64(j.obj.sequence)
    /\ IsU64(j.obj.total_pings)

\* The reply frame of the request {"message":"hi","sequence":42} handled
\* first on a fresh server.
C18_ExampleReply ==
    JsonObj([message |-> JStr("Pong! Responding to: hi"),
             sequence |-> JNum(FALSE, <<4, 2>>, FALSE),
             total_pings |-> JNum(FALSE, <<1>>, FALSE)])

\* C18: every frame handle_socket sends is a JSON object with exactly the
\* members message, sequence and total_pings; a connection never gets more
\* frames than requests it had accepted, and with no failed send it gets
\* exactly one per accepted request once the ask is over; the request
\* {"message":"hi","sequence":42}, handled first on a fresh server, gets
\* {"message":"Pong! Responding to: hi","sequence":42,"total_pings":1}.
C18_State ==
    /\ ParsePing(PingToJson(Ping("hi", <<4, 2>>))) = [ok |-> TRUE, ping |-> Ping("hi", <<4, 2>>)]
    /\ \A c \in Conns :
          /\ \A k \in 1..Len(out[c]) : WireFormat(out[c][k])
          /\ Len(out[c]) <= Len(asked[c])
          /\ abandoned[c] = {} =>
                Len(asked[c]) = Len(out[c]) + (IF slot[c].state = "none" THEN 0 ELSE 1)
          /\ slot[c].state = "ready" => ENABLED WsSendOk(c)
          /\ (/\ Len(out[c]) >= 1
              /\ asked[c][1] = Ping("hi", <<4, 2>>)
              /\ replies["http"][1].from = c) => out[c][1] = C18_ExampleReply

\* A frame is sent only for a reply that has arrived, one frame for it.
C18_Step ==
    \A c \in Conns :
        out'[c] # out[c] =>
            /\ slot[c].state = "ready"
            /\ slot'[c].state = "none"
            /\ out'[c] = Append(out[c], PongToJson(slot[c].pong))
            /\ slot[c].pong.sequence = Last(asked[c]).sequence

C18_WireFormat == [](C18_State) /\ [][C18_Step]_vars

C18_Witness ==
    /\ out["ws1"] = <<C18_ExampleReply>>
    /\ lastRead["ws1"] = TextFrame(PingToJson(Ping("hi", <<4, 2>>)))
    /\ Len(asked["ws1"]) = 1
    /\ slot["ws1"].state = "none"

\* C19 as stated: the counter never decreases, not even at 2^64-1, and no
\* reply carries a total smaller than one returned before.
C19_Step == \A s \in Servers : DigitsLeq(ping_count[s], ping_count'[s])

C19_Totals ==
    \A s \in Servers : \A j, k \in 1..Len(replies[s]) :
        j < k => DigitsLeq(replies[s][j].pong.total_pings, replies[s][k].pong.total_pings)

C19_NonDecreasing == [](C19_Totals) /\ [][C19_Step]_vars

\* Whether connection c has an ask under way.
InFlight(c) == IF slot[c].state \in {"waiting", "ready", "error"} THEN 1 ELSE 0

\* The envelopes of caller c in its actor's mailbox.
Queued(c) ==
    LET Mine(e) == e.from = c IN SelectSeq(mailbox[ServerOf(c)], Mine)

\* C20: a connection has at most one request at the actor, and while its
\* ask is under way handle_socket reads no frame; the reply frames sent on
\* it never outnumber the well-formed frames read, the difference being the
\* ask under way, the asks that returned Err and the replies whose send
\* failed; an ask that returns Err sends no frame and leaves the connection
\* reading.
C20_State ==
    \A c \in Conns :
        /\ Len(Queued(c)) <= 1
        /\ Len(Queued(c)) = 1 => slot[c].state = "waiting"
        /\ InFlight(c) = 1 <=> wsPc[c] = "ask"
        /\ wsPc[c] = "ask" => ~ENABLED WsRecv(c)
        /\ Len(out[c]) <= Len(asked[c])
        /\ Len(asked[c]) =
              Len(out[c]) + InFlight(c) + askErrs[c] + Cardinality(abandoned[c])
        /\ slot[c].state = "error" => ENABLED WsAskErr(c)

C20_Step ==
    \A c \in Conns :
        /\ Reads(c) => slot[c].state = "none" /\ Len(Queued(c)) = 0
        /\ askErrs'[c] # askErrs[c] =>
              /\ askErrs'[c] = askErrs[c] + 1
              /\ out' = out
              /\ wsPc'[c] = "recv"
              /\ slot'[c].state = "none"

C20_OneInFlight == [](C20_State) /\ [][C20_Step]_vars

C20_Witness ==
    \E c \in Conns :
        /\ Len(asked[c]) = 3
        /\ Len(out[c]) = 1
        /\ askErrs[c] = 2
        /\ wsPc[c] = "recv"
        /\ srvState["http"] = "panicked"

\* Client c has issued no ask: nothing asked, nothing of it in the server's
\* mailbox, no reply slot in use, nothing logged.
NothingSent(c) ==
    /\ asked[c] = <<>>
    /\ \A k \in 1..Len(enq[ServerOf(c)]) : enq[ServerOf(c)][k].from # c
    /\ slot[c].state = "none"
    /\ cliLog[c] = <<>>
    /\ cliErr[c] = <<>>

\* C21: the native client issues no ask before a lookup has returned the
\* handle: until then (start of main, lookup, the 3 s sleep) it has sent
\* nothing and cannot ask; it enters its ask loop only from a lookup of a
\* visible registration; a lookup that returns Err ends main with a failure
\* and nothing sent; without --server main logs the usage line, sends
\* nothing and returns Ok; an ended client stays ended.
C21_State ==
    \A c \in SoloClients :
        /\ cliPc[c] \in {"start", "lookup", "retry", "failed", "usage"} =>
              /\ NothingSent(c)
              /\ ~ENABLED CliAsk(c)
              /\ ~ENABLED CliAskFail(c)
        /\ asked[c] # <<>> =>
              /\ cliPc[c] \in {"ask", "wait", "done"}
              /\ target[c] = "server"
        /\ cliPc[c] = "usage" => target[c] = "unset"
        /\ cliPc[c] \in {"failed", "usage"} =>
              /\ ~ENABLED CliLookup(c)
              /\ ~ENABLED CliLookupNone(c)
              /\ ~ENABLED CliRetry(c)

C21_Step ==
    \A c \in SoloClients :
        /\ (cliPc'[c] = "ask" /\ cliPc[c] \notin {"ask", "wait"}) =>
              /\ cliPc[c] = "lookup"
              /\ target[c] = "server"
              /\ registered = "visible"
        /\ asked'[c] # asked[c] => cliPc[c] = "ask"
        /\ (cliPc[c] \in {"lookup", "retry"} /\ cliPc'[c] \in {"lookup", "retry", "failed"}) =>
              NothingSent(c)'
        /\ (cliPc[c] = "start" /\ cliPc'[c] = "usage") => NothingSent(c)'
        /\ cliPc[c] \in {"failed", "usage"} => cliPc'[c] = cliPc[c]

C21_NoAskBeforeHandle == [](C21_State) /\ [][C21_Step]_vars

\* A client that dialed the server, found nothing twice, then got Err from
\* lookup and ended with nothing sent.
C21_Witness ==
    /\ cliPc["cli1"] = "failed"
    /\ target["cli1"] = "server"
    /\ retries["cli1"] = MaxRetries
    /\ NothingSent("cli1")
    /\ spawned["cli"]

====
